---------------------------- MODULE Spec2Model ----------------------------
(***************************************************************************)
(* Model of the "QA Testing" reconciler (src/main.py, src/graphql.py,      *)
(* src/config.py): merged pull requests are scanned for issue references,  *)
(* each referenced open issue is moved to the "QA Testing" status of a     *)
(* project board and a notification comment is posted on it.               *)
(*                                                                         *)
(* Texts are sequences of one-character strings.  The remote API is the    *)
(* shared state (issue states, comment streams, board statuses); a run is  *)
(* a sequential process whose steps are its API calls.                     *)
(***************************************************************************)
EXTENDS Integers, Sequences, FiniteSets, TLC

\* ------------------------------------------------------------------ bounds

\* Number of reconciler runs that may exist (sequential or interleaved).
NumRuns == 2
\* Number of API calls of one behaviour that may fail or answer malformed.
MaxFaults == 1
\* Number of changes external actors (humans, other tools) make to issues.
MaxExternal == 1
\* Number of pages a paged source may hold.
MaxPages == 3
\* Number of fetches of one cursor walk that are followed.
MaxFetches == 5
\* Length of the PR bodies that are enumerated character by character.
MaxTextLen == 5

NULL == "null"

Runs == 1..NumRuns

\* ------------------------------------------------------- character classes

Digits == <<"0", "1", "2", "3", "4", "5", "6", "7", "8", "9">>

IsDigit(c) == \E i \in 1..Len(Digits) : Digits[i] = c

DigitVal(c) == (CHOOSE i \in 1..Len(Digits) : Digits[i] = c) - 1

\* The class [\w\-] of the patterns, over the characters the model uses.
IsWord(c) == IsDigit(c) \/ c \in {"a", "b", "c", "r", "_", "-"}

RECURSIVE WordRun(_, _)
\* Length of the longest run of [\w\-] characters of text starting at i.
WordRun(text, i) ==
  IF i <= Len(text) /\ IsWord(text[i]) THEN 1 + WordRun(text, i + 1) ELSE 0

RECURSIVE DigitRun(_, _)
\* Length of the longest run of \d characters of text starting at i.
DigitRun(text, i) ==
  IF i <= Len(text) /\ IsDigit(text[i]) THEN 1 + DigitRun(text, i + 1) ELSE 0

CharAt(text, i) == IF i >= 1 /\ i <= Len(text) THEN text[i] ELSE NULL

RECURSIVE ToInt(_)
\* int(digits)
ToInt(ds) ==
  IF ds = <<>> THEN 0
  ELSE 10 * ToInt(SubSeq(ds, 1, Len(ds) - 1)) + DigitVal(ds[Len(ds)])

\* -------------------------------------------------- the reference extractor

\* [\w\-]+\/[\w\-]+#\d+ at position i: the position after the match, or 0.
MatchOrgRepo(text, i) ==
  LET w1 == WordRun(text, i)
      j  == i + w1
      w2 == WordRun(text, j + 1)
      k  == j + 1 + w2
      d  == DigitRun(text, k + 1)
  IN  IF w1 >= 1 /\ CharAt(text, j) = "/" /\ w2 >= 1
         /\ CharAt(text, k) = "#" /\ d >= 1
      THEN k + 1 + d ELSE 0

\* [\w\-]+#\d+ at position i: the position after the match, or 0.
MatchRepo(text, i) ==
  LET w == WordRun(text, i)
      k == i + w
      d == DigitRun(text, k + 1)
  IN  IF w >= 1 /\ CharAt(text, k) = "#" /\ d >= 1 THEN k + 1 + d ELSE 0

\* #\d+ at position i: the position after the match, or 0.
MatchBare(text, i) ==
  LET d == DigitRun(text, i + 1)
  IN  IF CharAt(text, i) = "#" /\ d >= 1 THEN i + 1 + d ELSE 0

\* A slip in the pattern: the org/repo#N alternative is missing.
MatchAtWithoutOrg(text, i) ==
  IF MatchRepo(text, i) # 0 THEN MatchRepo(text, i) ELSE MatchBare(text, i)

\* The alternation of the pattern, tried in its written order.
MatchAt(text, i) ==
  IF MatchOrgRepo(text, i) # 0 THEN MatchOrgRepo(text, i)
  ELSE IF MatchRepo(text, i) # 0 THEN MatchRepo(text, i)
  ELSE MatchBare(text, i)

RECURSIVE FindAll(_, _)
\* re.findall: leftmost non-overlapping matches scanning from position i.
FindAll(text, i) ==
  IF i > Len(text) THEN <<>>
  ELSE LET e == MatchAt(text, i)
       IN  IF e # 0 THEN <<SubSeq(text, i, e - 1)>> \o FindAll(text, e)
           ELSE FindAll(text, i + 1)

extract_referenced_issues_from_text(text) == FindAll(text, 1)

\* ------------------------------------------------------------ configuration

\* config.repository_owner, config.repository_name
repository_owner == <<"a">>
repository_name == <<"r">>
\* config.project_title, config.status_field_name
project_title == "Board"
status_field_name == "Status"
\* The literal option label of the code.
QATesting == "QA Testing"

\* ------------------------------------------------------- the issue resolver

\* re.match of (?:(?P<org>[\w\-]+)/(?P<repo>[\w\-]+))?#(?P<number>\d+) and the
\* defaults of the two optional groups.
resolve_parse(reference) ==
  LET w1 == WordRun(reference, 1)
      j  == 1 + w1
      w2 == WordRun(reference, j + 1)
      k  == j + 1 + w2
      d  == DigitRun(reference, k + 1)
      d0 == DigitRun(reference, 2)
  IN  IF w1 >= 1 /\ CharAt(reference, j) = "/" /\ w2 >= 1
         /\ CharAt(reference, k) = "#" /\ d >= 1
      THEN [ok |-> TRUE, org |-> SubSeq(reference, 1, w1),
            repo |-> SubSeq(reference, j + 1, k - 1),
            number |-> ToInt(SubSeq(reference, k + 1, k + d))]
      ELSE IF CharAt(reference, 1) = "#" /\ d0 >= 1
      THEN [ok |-> TRUE, org |-> repository_owner, repo |-> repository_name,
            number |-> ToInt(SubSeq(reference, 2, 1 + d0))]
      ELSE [ok |-> FALSE, org |-> <<>>, repo |-> <<>>, number |-> 0]


\* --------------------------------------------------- the cursor walker

\* `first:` of the three list queries.
PRPageSize == 50
ItemPageSize == 100
CommentPageSize == 100

RECURSIVE Pages(_, _, _)
\* What the server answers for a list of nodes asked for `size` at a time:
\* page n carries its nodes, hasNextPage and, as endCursor, the number of
\* the page that follows.  Cursor 0 is None.
Pages(nodes, size, n) ==
  IF Len(nodes) <= size
  THEN <<[nodes |-> nodes, hasNextPage |-> FALSE, endCursor |-> 0]>>
  ELSE <<[nodes |-> SubSeq(nodes, 1, size), hasNextPage |-> TRUE,
          endCursor |-> n + 1]>>
       \o Pages(SubSeq(nodes, size + 1, Len(nodes)), size, n + 1)

RECURSIVE Walk(_, _)
\* The `while True` loop of the list operations: fetch the page the cursor
\* names (None names the first), extend, stop when hasNextPage is false.
Walk(pages, cursor) ==
  LET page == pages[IF cursor = 0 THEN 1 ELSE cursor]
  IN  page.nodes \o
      (IF ~page.hasNextPage THEN <<>> ELSE Walk(pages, page.endCursor))

\* ------------------------------------------------------ comment text

\* The f-string of the notification, as the sequence of its pieces.
comment_text(pr_number, pr_url) ==
  <<"Testing will be available in 15 minutes (triggered by [PR #",
    ToString(pr_number), "](", pr_url, "))">>

\* Python's `needle in body` on strings.
Contains(body, needle) ==
  \E i \in 0..(Len(body) - Len(needle)) :
     SubSeq(body, i + 1, i + Len(needle)) = needle

\* A slip in the duplicate check: equality with the body, not containment.
CheckCommentEquals(fetched, text) ==
  \E i \in 1..Len(fetched) : fetched[i] = text

\* A slip in the duplicate check: it never finds the comment.
CheckCommentNever(fetched, text) == FALSE

\* check_comment_exists, given the comments get_issue_comments returned.
check_comment_exists(fetched, text) ==
  \E i \in 1..Len(fetched) : Contains(fetched[i], text)

\* ------------------------------------------------------ the remote world

IssueIds == {"I1", "I2"}

\* The issue the API finds for (owner, repo, number): the running repository
\* a/r holds issues 1 and 2; any other triple names no issue.
IssueAt(org, repo, number) ==
  IF org = repository_owner /\ repo = repository_name /\ number = 1 THEN "I1"
  ELSE IF org = repository_owner /\ repo = repository_name /\ number = 2
  THEN "I2"
  ELSE NULL

IssueNumber(id) == IF id = "I1" THEN 1 ELSE 2

\* Board rows.  X1, X2 are the rows of issues I1, I2 on the configured
\* project, D0 is a draft row (no issue content), Y1 is the row of I1 on
\* another project that has a field of the same name.
ItemIds == {"X1", "X2", "Y1"}
StatusNames == {NULL, "Todo", QATesting}

VARIABLES
  \* remote state
  issueState,     \* issue id -> "OPEN" | "CLOSED"
  comments,       \* issue id -> sequence of comment bodies
  itemStatus,     \* board row -> value of its status field (NULL: unset)
  \* what the remote holds and this program never changes
  prs,            \* merged pull requests into dev, as the API lists them
  projects,       \* projectsV2 nodes of the owner
  fields,         \* field nodes of the project
  boardItems,     \* item nodes of the configured project
  projectItemsOf, \* issue id -> the issue's projectItems nodes (row ids)
  dry_run,        \* config.dry_run
  \* the runs
  run,            \* run -> locals and position of notify_change_status
  log,            \* run -> the calls and log lines of the run, in order
  \* the environment's remaining budget
  faultsLeft,
  externalLeft,
  \* one list operation's cursor walk, fetch by fetch
  walk

world == <<issueState, comments, itemStatus>>
static == <<prs, projects, fields, boardItems, projectItemsOf, dry_run>>
vars == <<issueState, comments, itemStatus, prs, projects, fields, boardItems,
          projectItemsOf, dry_run, run, log, faultsLeft, externalLeft, walk>>

\* ------------------------------------------------ project and status lookups

SingleSelect == "ProjectV2SingleSelectField"

\* The first of the positions `hits` of a sequence, or 0 when there is none
\* (a `for` loop that returns or breaks at its first hit).
First(hits) ==
  IF hits = {} THEN 0 ELSE CHOOSE n \in hits : \A m \in hits : n <= m

\* get_project_id_by_title, given the nodes the query returned.
get_project_id_by_title(nodes, title) ==
  LET i == First({n \in DOMAIN nodes : nodes[n].title = title})
  IN  IF i = 0 THEN NULL ELSE nodes[i].id

\* get_status_field_id, given the field nodes the query returned.
get_status_field_id(nodes, name) ==
  LET i == First({n \in DOMAIN nodes :
                   nodes[n].typename = SingleSelect /\ nodes[n].name = name})
  IN  IF i = 0 THEN NULL ELSE nodes[i].id

RECURSIVE OptionScan(_, _, _)
\* The nested loops of get_qatesting_status_option_id from field i on.
OptionScan(nodes, i, name) ==
  IF i > Len(nodes) THEN NULL
  ELSE LET field == nodes[i]
           j == First({n \in DOMAIN field.options :
                         field.options[n].name = QATesting})
       IN  IF field.typename = SingleSelect /\ field.name = name /\ j # 0
           THEN field.options[j].id
           ELSE OptionScan(nodes, i + 1, name)

\* A slip in the option loop: the first option of the field is taken.
OptionIdOfFirstOption(nodes, name) ==
  LET i == First({n \in DOMAIN nodes :
                   /\ nodes[n].typename = SingleSelect /\ nodes[n].name = name
                   /\ nodes[n].options # <<>>})
  IN  IF i = 0 THEN NULL ELSE nodes[i].options[1].id

\* get_qatesting_status_option_id, given the field nodes the query returned.
get_qatesting_status_option_id(nodes, name) == OptionScan(nodes, 1, name)

\* get_issue_status, given the issue's projectItems nodes: the name of the
\* first non-null fieldValueByName.
get_issue_status(nodes, status) ==
  LET i == First({n \in DOMAIN nodes : status[nodes[n]] # NULL})
  IN  IF i = 0 THEN NULL ELSE status[nodes[i]]

\* A slip in the item loop: the issue id is not compared.
FindItemAnyIssue(items, issue_id) ==
  LET i == First({n \in DOMAIN items : items[n].content # NULL})
  IN  IF i = 0 THEN NULL ELSE items[i].id

\* The `for item in items` loop of notify_change_status: the id of the first
\* item whose content is the issue, or NULL when item_found stays False.
find_item(items, issue_id) ==
  LET i == First({n \in DOMAIN items :
                   items[n].content # NULL /\ items[n].content = issue_id})
  IN  IF i = 0 THEN NULL ELSE items[i].id

\* A slip in the configuration checks: the run goes on without the id.
MissingIgnored(id) == FALSE

\* `if not project_id`, `if not status_field_id`, `if not status_option_id`
Missing(id) == id = NULL

\* A slip in the branch: every issue is taken to need the update.
NeedsUpdateAlways(current_status) == TRUE

\* `if current_status != "QA Testing"`
NeedsUpdate(current_status) == current_status # QATesting

\* A slip in the state gate: it lets every issue through.
NotOpenNever(issue_state) == FALSE

\* A slip in the state gate: it stops only the issues reported CLOSED.
NotOpenOnlyClosed(issue_state) == issue_state = "CLOSED"

\* `if issue_state != "OPEN"`
NotOpen(issue_state) == issue_state # "OPEN"

\* `if update_result`: response.json().get("data") is truthy for a non-empty
\* data object, whatever it holds.
Truthy(update_result) == update_result \in {"ok", "nullpayload"}

\* What the server sets a row's field to for an option id: the option's name
\* (the row is left as it is when the field holds no such option).
OptionName(field_id, option_id, old) ==
  LET i == First({n \in DOMAIN fields :
                   fields[n].typename = SingleSelect /\ fields[n].id = field_id})
      j == IF i = 0 THEN 0
           ELSE First({n \in DOMAIN fields[i].options :
                         fields[i].options[n].id = option_id})
  IN  IF j = 0 THEN old ELSE fields[i].options[j].name

\* ------------------------------------------------------- initial states

PR(n, u, body) == [number |-> n, url |-> u, bodyText |-> body]

\* PR descriptions: no reference; one; the same one twice; a same-org
\* reference followed by a bare one; a cross-org reference; a reference to
\* an issue that does not exist followed by one that does.
BodyTexts ==
  { <<>>,
    <<"#", "1">>,
    <<"#", "1", " ", "#", "1">>,
    <<"r", "#", "2", " ", "#", "1">>,
    <<"a", "/", "r", "#", "2">>,
    <<"#", "3", " ", "#", "2">> }

PRLists ==
  {<<>>}
  \cup {<<PR(4, "u4", b)>> : b \in BodyTexts}
  \cup { <<PR(4, "u4", <<"#", "1">>), PR(42, "u42", <<"#", "1">>)>>,
         <<PR(4, "u4", <<>>), PR(42, "u42", <<"#", "2">>)>> }

TitleField ==
  [typename |-> "ProjectV2Field", id |-> NULL, name |-> NULL, options |-> <<>>]
StatusField(opts) ==
  [typename |-> SingleSelect, id |-> "F1", name |-> status_field_name,
   options |-> opts]
Todo == [id |-> "O1", name |-> "Todo"]
QA == [id |-> "O2", name |-> QATesting]
TheBoard == [id |-> "P1", title |-> project_title]
OtherBoard == [id |-> "P0", title |-> "Board archive"]

\* Project and field lists: all found, the project behind a fuzzy hit of
\* the title search; no such project; no such field; no "QA Testing" option.
ConfigChoices ==
  { [projects |-> <<OtherBoard, TheBoard>>,
     fields |-> <<TitleField, StatusField(<<Todo, QA>>)>>],
    [projects |-> <<OtherBoard>>, fields |-> <<StatusField(<<Todo, QA>>)>>],
    [projects |-> <<TheBoard>>, fields |-> <<TitleField>>],
    [projects |-> <<TheBoard>>, fields |-> <<StatusField(<<Todo>>)>>] }

Row(id, content) == [id |-> id, content |-> content]

\* Boards: I1 on no project; I1 only on another project; I1 on the board
\* (status unset, to do, or already in QA testing); both issues on the board; both on the
\* board and I1 also on another project, listed first among its memberships.
BoardChoices ==
  { [items |-> <<>>, of |-> [i \in IssueIds |-> <<>>],
     status |-> [x \in ItemIds |-> NULL]],
    [items |-> <<>>, of |-> [i \in IssueIds |-> IF i = "I1" THEN <<"Y1">> ELSE <<>>],
     status |-> [x \in ItemIds |-> IF x = "Y1" THEN QATesting ELSE NULL]],
    [items |-> <<Row("D0", NULL), Row("X1", "I1"), Row("X2", "I2")>>,
     of |-> [i \in IssueIds |-> IF i = "I1" THEN <<"X1">> ELSE <<"X2">>],
     status |-> [x \in ItemIds |-> IF x = "Y1" THEN NULL ELSE "Todo"]],
    [items |-> <<Row("D0", NULL), Row("X1", "I1"), Row("X2", "I2")>>,
     of |-> [i \in IssueIds |-> IF i = "I1" THEN <<"Y1", "X1">> ELSE <<"X2">>],
     status |-> [x \in ItemIds |-> IF x = "Y1" THEN QATesting ELSE "Todo"]] }
  \cup
  { [items |-> <<Row("D0", NULL), Row("X1", "I1")>>,
     of |-> [i \in IssueIds |-> IF i = "I1" THEN <<"X1">> ELSE <<>>],
     status |-> [x \in ItemIds |-> IF x = "X1" THEN st ELSE NULL]] :
       st \in StatusNames }

\* A human comment quoting the notification of PR #4.
Quote == <<"> ">> \o comment_text(4, "u4") \o <<" (seen)">>

CommentChoices ==
  { [i \in IssueIds |-> <<>>],
    [i \in IssueIds |-> IF i = "I1" THEN <<Quote>> ELSE <<>>] }

\* No list operation is being followed fetch by fetch.
NoWalk ==
  [kind |-> NULL, pages |-> <<>>, cursor |-> 0, acc |-> <<>>,
   fetches |-> <<>>, outs |-> <<>>, pc |-> "idle"]

NewRun ==
  [pc |-> "start", merged_prs |-> <<>>, project_id |-> NULL,
   status_field_id |-> NULL, status_option_id |-> NULL, items |-> <<>>,
   p |-> 0, k |-> 0, issue_id |-> NULL, issue_number |-> 0,
   issue_state |-> NULL, current_status |-> NULL, item_id |-> NULL,
   query |-> <<>>]

InitWorld ==
  /\ prs \in PRLists
  /\ \E c \in ConfigChoices : projects = c.projects /\ fields = c.fields
  /\ \E b \in BoardChoices :
       boardItems = b.items /\ projectItemsOf = b.of /\ itemStatus = b.status
  /\ comments \in CommentChoices
  /\ issueState = [i \in IssueIds |-> "OPEN"]
  /\ dry_run \in BOOLEAN
  /\ run = [r \in Runs |-> NewRun]
  /\ log = [r \in Runs |-> <<>>]
  /\ walk = NoWalk

Init ==
  /\ InitWorld
  /\ faultsLeft = MaxFaults
  /\ externalLeft = MaxExternal

\* ------------------------------------------------------------ the run

\* One line of a run's record: an API call made for the pair (p, k) (the k-th
\* reference of the p-th merged PR) with what it carried and how it ended, or
\* a log line.  `live` is the issue's state on the server at that moment.
Ev(op, rr, res) ==
  [op |-> op, p |-> rr.p, k |-> rr.k, issue |-> rr.issue_id,
   item |-> rr.item_id, field |-> rr.status_field_id,
   option |-> rr.status_option_id, res |-> res, query |-> rr.query,
   body |-> IF op = "comment"
            THEN comment_text(rr.merged_prs[rr.p].number, rr.merged_prs[rr.p].url)
            ELSE <<>>,
   live |-> IF rr.issue_id = NULL THEN NULL ELSE issueState[rr.issue_id]]

\* linked_issues of the PR the run is at.
LinkedIssues(rr) ==
  extract_referenced_issues_from_text(rr.merged_prs[rr.p].bodyText)

\* comment_text of the pair the run is at.
CommentTextOf(rr) ==
  comment_text(rr.merged_prs[rr.p].number, rr.merged_prs[rr.p].url)

\* The outer loop from PR q on: the first PR with a reference in its
\* description (the others `continue`), or 0 when the loop ends.
NextPR(merged, q) ==
  First({n \in q..Len(merged) :
           extract_referenced_issues_from_text(merged[n].bodyText) # <<>>})

\* A slip in the loop: a skipped reference ends the run.
ContinueReturns(rr) == [rr EXCEPT !.pc = "done"]

\* `continue`, or the end of the inner loop's body: the next reference, else
\* the next PR that has one, else the function returns.
Continue(rr) ==
  IF rr.k < Len(LinkedIssues(rr))
  THEN [rr EXCEPT !.k = rr.k + 1, !.pc = "resolve"]
  ELSE LET q == NextPR(rr.merged_prs, rr.p + 1)
       IN  IF q = 0 THEN [rr EXCEPT !.pc = "done"]
           ELSE [rr EXCEPT !.p = q, !.k = 1, !.pc = "resolve"]

\* An API call ends as `out`: anything but "ok" uses up one of the faults the
\* environment may still inject.
Outcome(out) ==
  /\ out # "ok" => faultsLeft > 0
  /\ faultsLeft' = IF out = "ok" THEN faultsLeft ELSE faultsLeft - 1

Step(r, rr, events) ==
  /\ run' = [run EXCEPT ![r] = rr]
  /\ log' = [log EXCEPT ![r] = log[r] \o events]

\* main.py 19-26: get_recent_merged_prs_in_dev.  A transport error is caught
\* and gives []; an "errors" answer ends the walk with what it has.
FetchMergedPRs(r) ==
  /\ run[r].pc = "start"
  /\ \E out \in {"ok", "transport", "errors"} :
       /\ Outcome(out)
       /\ LET merged == IF out = "ok" THEN Walk(Pages(prs, PRPageSize, 1), 0)
                        ELSE <<>>
          IN  Step(r, [run[r] EXCEPT !.merged_prs = merged,
                         !.pc = IF merged = <<>> THEN "done" ELSE "project"],
                   <<>>)
  /\ UNCHANGED <<world, static, externalLeft, walk>>

\* main.py 31-39: get_project_id_by_title.  No exception is caught here: a
\* transport error ends the run; an answer without data gives no nodes.
GetProjectId(r) ==
  /\ run[r].pc = "project"
  /\ \E out \in {"ok", "raise", "nodata"} :
       /\ Outcome(out)
       /\ LET id == get_project_id_by_title(
                      IF out = "ok" THEN projects ELSE <<>>, project_title)
              rr == [run[r] EXCEPT !.project_id = id]
          IN  IF out = "raise"
              THEN Step(r, [run[r] EXCEPT !.pc = "crashed"], <<>>)
              ELSE IF Missing(id)
              THEN Step(r, [rr EXCEPT !.pc = "done"],
                        <<Ev("error_project", rr, out)>>)
              ELSE Step(r, [rr EXCEPT !.pc = "field"], <<>>)
  /\ UNCHANGED <<world, static, externalLeft, walk>>

\* main.py 41-48: get_status_field_id.
GetStatusFieldId(r) ==
  /\ run[r].pc = "field"
  /\ \E out \in {"ok", "raise", "nodata"} :
       /\ Outcome(out)
       /\ LET id == get_status_field_id(
                      IF out = "ok" THEN fields ELSE <<>>, status_field_name)
              rr == [run[r] EXCEPT !.status_field_id = id]
          IN  IF out = "raise"
              THEN Step(r, [run[r] EXCEPT !.pc = "crashed"], <<>>)
              ELSE IF Missing(id)
              THEN Step(r, [rr EXCEPT !.pc = "done"],
                        <<Ev("error_field", rr, out)>>)
              ELSE Step(r, [rr EXCEPT !.pc = "option"], <<>>)
  /\ UNCHANGED <<world, static, externalLeft, walk>>

\* main.py 50-57: get_qatesting_status_option_id.
GetOptionId(r) ==
  /\ run[r].pc = "option"
  /\ \E out \in {"ok", "raise", "nodata"} :
       /\ Outcome(out)
       /\ LET id == get_qatesting_status_option_id(
                      IF out = "ok" THEN fields ELSE <<>>, status_field_name)
              rr == [run[r] EXCEPT !.status_option_id = id]
          IN  IF out = "raise"
              THEN Step(r, [run[r] EXCEPT !.pc = "crashed"], <<>>)
              ELSE IF Missing(id)
              THEN Step(r, [rr EXCEPT !.pc = "done"],
                        <<Ev("error_option", rr, out)>>)
              ELSE Step(r, [rr EXCEPT !.pc = "items"], <<>>)
  /\ UNCHANGED <<world, static, externalLeft, walk>>

\* main.py 59-81: get_project_items (a transport error is caught and gives
\* []), then the loops start at the first PR that has a reference.
GetProjectItems(r) ==
  /\ run[r].pc = "items"
  /\ \E out \in {"ok", "transport", "errors"} :
       /\ Outcome(out)
       /\ LET items == IF out = "ok"
                       THEN Walk(Pages(boardItems, ItemPageSize, 1), 0)
                       ELSE <<>>
              q == NextPR(run[r].merged_prs, 1)
              rr == [run[r] EXCEPT !.items = items]
          IN  IF q = 0 THEN Step(r, [rr EXCEPT !.pc = "done"], <<>>)
              ELSE Step(r, [rr EXCEPT !.p = q, !.k = 1, !.pc = "resolve"], <<>>)
  /\ UNCHANGED <<world, static, externalLeft, walk>>

\* main.py 83-96: resolve_issue_reference for the reference the run is at, and
\* the open-state gate on the state that call returned.  A token the pattern
\* rejects gives None without a call; any exception of the call is caught and
\* gives None.  (The locals of the previous pair are cleared: the code
\* reassigns each before it reads it.)
\* main.py 89: issue_data.get("state", "UNKNOWN").  The answer may carry the
\* issue without a state key ("nostate") or with a null state ("nullstate").
reported_state(out, id) ==
  CASE out = "nostate" -> "UNKNOWN"
    [] out = "nullstate" -> NULL
    [] OTHER -> issueState[id]

ResolveRef(r) ==
  /\ run[r].pc = "resolve"
  /\ LET r0 == [run[r] EXCEPT !.issue_id = NULL, !.issue_number = 0,
                  !.issue_state = NULL, !.current_status = NULL,
                  !.item_id = NULL, !.query = <<>>]
         m == resolve_parse(LinkedIssues(r0)[r0.k])
     IN  IF ~m.ok
         THEN /\ Step(r, Continue(r0), <<Ev("warn_unresolved", r0, "nomatch")>>)
              /\ UNCHANGED faultsLeft
         ELSE \E out \in {"ok", "exception", "nostate", "nullstate"} :
                /\ Outcome(out)
                /\ out \in {"nostate", "nullstate"}
                     => IssueAt(m.org, m.repo, m.number) # NULL
                /\ LET q0 == [r0 EXCEPT !.query = <<m.org, m.repo, m.number>>]
                       id == IF out = "exception" THEN NULL
                             ELSE IssueAt(m.org, m.repo, m.number)
                       rr == [q0 EXCEPT !.issue_id = id,
                                !.issue_number = IssueNumber(id),
                                !.issue_state = reported_state(out, id)]
                   IN  IF id = NULL
                       THEN Step(r, Continue(q0),
                                 <<Ev("resolve", q0, out),
                                   Ev("warn_unresolved", q0, out)>>)
                       ELSE IF NotOpen(rr.issue_state)
                       THEN Step(r, Continue(rr),
                                 <<Ev("resolve", rr, rr.issue_state),
                                   Ev("skip_state", rr, rr.issue_state)>>)
                       ELSE Step(r, [rr EXCEPT !.pc = "comments"],
                                 <<Ev("resolve", rr, rr.issue_state)>>)
  /\ UNCHANGED <<world, static, externalLeft, walk>>

\* main.py 98-106: check_comment_exists over get_issue_comments.  No
\* exception is caught: a transport error ends the run; an answer without data
\* gives no comments.
CheckComment(r) ==
  /\ run[r].pc = "comments"
  /\ \E out \in {"ok", "raise", "nodata"} :
       /\ Outcome(out)
       /\ LET rr == run[r]
              fetched == IF out = "ok"
                         THEN Walk(Pages(comments[rr.issue_id],
                                         CommentPageSize, 1), 0)
                         ELSE <<>>
          IN  IF out = "raise"
              THEN Step(r, [rr EXCEPT !.pc = "crashed"],
                        <<Ev("list_comments", rr, out)>>)
              ELSE IF check_comment_exists(fetched, CommentTextOf(rr))
              THEN Step(r, Continue(rr),
                        <<Ev("list_comments", rr, out), Ev("skip_dup", rr, out)>>)
              ELSE Step(r, [rr EXCEPT !.pc = "status"],
                        <<Ev("list_comments", rr, out)>>)
  /\ UNCHANGED <<world, static, externalLeft, walk>>

\* main.py 108-117, 135-138: get_issue_status, the comparison with
\* "QA Testing" and the search of the fetched items.  The request is outside
\* the function's try: a transport error ends the run; a malformed answer
\* gives None.
ReadStatus(r) ==
  /\ run[r].pc = "status"
  /\ \E out \in {"ok", "raise", "nodata"} :
       /\ Outcome(out)
       /\ LET current == IF out = "ok"
                         THEN get_issue_status(projectItemsOf[run[r].issue_id],
                                               itemStatus)
                         ELSE NULL
              rr == [run[r] EXCEPT !.current_status = current]
              item == find_item(rr.items, rr.issue_id)
          IN  IF out = "raise"
              THEN Step(r, [run[r] EXCEPT !.pc = "crashed"],
                        <<Ev("read_status", run[r], out)>>)
              ELSE IF ~NeedsUpdate(current)
              THEN Step(r, [rr EXCEPT !.pc = "comment"],
                        <<Ev("read_status", rr, current)>>)
              ELSE IF item = NULL
              THEN Step(r, Continue(rr),
                        <<Ev("read_status", rr, current),
                          Ev("warn_noitem", rr, current)>>)
              ELSE Step(r, [rr EXCEPT !.item_id = item, !.pc = "mutate"],
                        <<Ev("read_status", rr, current)>>)
  /\ UNCHANGED <<world, static, externalLeft, walk>>

\* main.py 119-133: update_issue_status_to_qa_testing and the test of its
\* result.  "ok": the row is updated and the payload returned; "nullpayload":
\* data is {"updateProjectV2ItemFieldValue": null} beside errors, nothing is
\* updated; "nodata": no data at all; "raise": a transport error, not caught.
Mutate(r) ==
  /\ run[r].pc = "mutate"
  /\ \E out \in {"ok", "raise", "nodata", "nullpayload"} :
       /\ Outcome(out)
       /\ LET rr == run[r]
          IN  /\ itemStatus' =
                   IF out = "ok"
                   THEN [itemStatus EXCEPT ![rr.item_id] =
                           OptionName(rr.status_field_id, rr.status_option_id,
                                      itemStatus[rr.item_id])]
                   ELSE itemStatus
              /\ IF out = "raise"
                 THEN Step(r, [rr EXCEPT !.pc = "crashed"],
                           <<Ev("mutate", rr, out)>>)
                 ELSE IF Truthy(out)
                 THEN Step(r, [rr EXCEPT !.pc = "comment"],
                           <<Ev("mutate", rr, out)>>)
                 ELSE Step(r, Continue(rr),
                           <<Ev("mutate", rr, out), Ev("error_update", rr, out)>>)
  /\ UNCHANGED <<issueState, comments, static, externalLeft, walk>>

\* main.py 130, 139: add_issue_comment; its result is not looked at.  "ok":
\* the comment is appended; "nodata": the server refuses it; "raise": a
\* transport error, not caught.
PostComment(r) ==
  /\ run[r].pc = "comment"
  /\ \E out \in {"ok", "raise", "nodata"} :
       /\ Outcome(out)
       /\ LET rr == run[r]
          IN  /\ comments' =
                   IF out = "ok"
                   THEN [comments EXCEPT ![rr.issue_id] =
                           Append(comments[rr.issue_id], CommentTextOf(rr))]
                   ELSE comments
              /\ IF out = "raise"
                 THEN Step(r, [rr EXCEPT !.pc = "crashed"],
                           <<Ev("comment", rr, out)>>)
                 ELSE Step(r, Continue(rr), <<Ev("comment", rr, out)>>)
  /\ UNCHANGED <<issueState, itemStatus, static, externalLeft, walk>>

\* notify_change_status, one API call at a time.
RunStep(r) ==
  \/ FetchMergedPRs(r)
  \/ GetProjectId(r)
  \/ GetStatusFieldId(r)
  \/ GetOptionId(r)
  \/ GetProjectItems(r)
  \/ ResolveRef(r)
  \/ CheckComment(r)
  \/ ReadStatus(r)
  \/ Mutate(r)
  \/ PostComment(r)

\* ------------------------------------------------------- the environment

\* Someone closes an issue while a run is under way.
CloseIssue(i) ==
  /\ externalLeft > 0
  /\ issueState[i] = "OPEN"
  /\ issueState' = [issueState EXCEPT ![i] = "CLOSED"]
  /\ externalLeft' = externalLeft - 1
  /\ UNCHANGED <<comments, itemStatus, static, run, log, faultsLeft, walk>>

\* ------------------------------------------------------- specifications

Finished(r) == run[r].pc \in {"done", "crashed"}

\* One run (main.py 142-147) against a remote that may fail and on which
\* issues may be closed meanwhile.
Next ==
  \/ RunStep(1)
  \/ \E i \in IssueIds : CloseIssue(i)

Spec == Init /\ [][Next]_vars

\* Runs one after the other (the workflow run again), each against a remote
\* that may fail; nobody else touches the issues, comments or board.  The
\* runs are real ones (no dry-run flag).
InitTwice ==
  /\ InitWorld
  /\ dry_run = FALSE
  /\ faultsLeft = MaxFaults
  /\ externalLeft = 0

NextTwice ==
  \E r \in Runs : (\A q \in Runs : q < r => Finished(q)) /\ RunStep(r)

SpecTwice == InitTwice /\ [][NextTwice]_vars

\* Runs whose API calls interleave freely (two workflow runs at once) on a
\* remote that answers every call and that nobody else touches.
InitConc ==
  /\ prs \in { <<PR(4, "u4", <<"#", "1">>)>>,
               <<PR(4, "u4", <<"#", "1", " ", "#", "1">>)>> }
  /\ projects = <<OtherBoard, TheBoard>>
  /\ fields = <<TitleField, StatusField(<<Todo, QA>>)>>
  /\ boardItems = <<Row("D0", NULL), Row("X1", "I1")>>
  /\ projectItemsOf = [i \in IssueIds |-> IF i = "I1" THEN <<"X1">> ELSE <<>>]
  /\ \E st \in {"Todo", QATesting} :
       itemStatus = [x \in ItemIds |-> IF x = "X1" THEN st ELSE NULL]
  /\ comments \in CommentChoices
  /\ issueState = [i \in IssueIds |-> "OPEN"]
  /\ dry_run = FALSE
  /\ run = [r \in Runs |-> NewRun]
  /\ log = [r \in Runs |-> <<>>]
  /\ walk = NoWalk
  /\ faultsLeft = 0
  /\ externalLeft = 0

NextConc == \E r \in Runs : RunStep(r)

SpecConc == InitConc /\ [][NextConc]_vars

\* One run against a remote that answers every call and that nobody else
\* touches.
InitNominal ==
  /\ InitWorld
  /\ faultsLeft = 0
  /\ externalLeft = 0

NextNominal == RunStep(1)

SpecNominal == InitNominal /\ [][NextNominal]_vars

\* One run over one merged PR whose bodyText is any short text, or the longer
\* text with one reference of each shape, against a remote that answers every
\* call: the extractor and the resolver applied to every input.
TextChars == {"a", "/", "#", "1", " "}

RECURSIVE Texts(_)
Texts(n) ==
  IF n = 0 THEN {<<>>}
  ELSE Texts(n - 1) \cup
       {Append(t, c) : t \in {u \in Texts(n - 1) : Len(u) = n - 1},
                       c \in TextChars}

ThreeShapes ==
  <<"a", "/", "r", "#", "9", " ", "r", "#", "8", " ", "#", "7">>

InitText ==
  /\ \E t \in Texts(MaxTextLen) \cup {ThreeShapes} : prs = <<PR(4, "u4", t)>>
  /\ projects = <<OtherBoard, TheBoard>>
  /\ fields = <<TitleField, StatusField(<<Todo, QA>>)>>
  /\ boardItems = <<Row("D0", NULL), Row("X1", "I1")>>
  /\ projectItemsOf = [i \in IssueIds |-> IF i = "I1" THEN <<"X1">> ELSE <<>>]
  /\ itemStatus = [x \in ItemIds |-> IF x = "X1" THEN "Todo" ELSE NULL]
  /\ comments = [i \in IssueIds |-> <<>>]
  /\ issueState = [i \in IssueIds |-> "OPEN"]
  /\ dry_run = FALSE
  /\ run = [r \in Runs |-> NewRun]
  /\ log = [r \in Runs |-> <<>>]
  /\ walk = NoWalk
  /\ faultsLeft = 0
  /\ externalLeft = 0

NextText == RunStep(1)

SpecText == InitText /\ [][NextText]_vars

\* ------------------------------------------- the cursor walk, fetch by fetch

\* The three list operations with a cursor loop: get_recent_merged_prs_in_dev
\* (graphql.py 42-57), get_project_items (276-310), get_issue_comments
\* (403-415).
WalkKinds == {"prs", "items", "comments"}

\* The nodes of page i of a source (pages differ in size and content).
PageNodes(i) == [j \in 1..((i % 2) + 1) |-> 10 * i + j]

\* What a server may answer page by page: page i with any pageInfo at all, a
\* hasNextPage of either value and an endCursor that names any page or is null
\* (0).
Sources ==
  UNION { { [i \in 1..n |-> [nodes |-> PageNodes(i),
                              hasNextPage |-> f[i].h,
                              endCursor |-> f[i].c]] :
            f \in [1..n -> [h : BOOLEAN, c : 0..n]] } :
          n \in 1..MaxPages }

\* The page the server returns for `after: cursor` (None names the first).
PageOf(cursor) == IF cursor = 0 THEN 1 ELSE cursor

\* A slip in the loop: it never asks for a further page.
HasNextNever(page) == FALSE

\* The loops' exit test on pageInfo.hasNextPage.
has_next(page) == page.hasNextPage

InitWalk ==
  /\ prs = <<>>
  /\ projects = <<>>
  /\ fields = <<>>
  /\ boardItems = <<>>
  /\ projectItemsOf = [i \in IssueIds |-> <<>>]
  /\ itemStatus = [x \in ItemIds |-> NULL]
  /\ comments = [i \in IssueIds |-> <<>>]
  /\ issueState = [i \in IssueIds |-> "OPEN"]
  /\ dry_run = FALSE
  /\ run = [r \in Runs |-> NewRun]
  /\ log = [r \in Runs |-> <<>>]
  /\ faultsLeft = MaxFaults
  /\ externalLeft = 0
  /\ \E kind \in WalkKinds : \E src \in Sources :
       walk = [kind |-> kind, pages |-> src, cursor |-> 0, acc |-> <<>>,
               fetches |-> <<>>, outs |-> <<>>, pc |-> "fetch"]

\* One iteration of the loop: post the query with the current cursor, then
\*   - transport error: caught by the two loops inside try (the result is
\*     []), uncaught in get_issue_comments;
\*   - an answer with "errors": leave the loop with what was gathered;
\*   - otherwise extend, leave when hasNextPage is false, else take endCursor.
WalkFetch ==
  /\ walk.pc = "fetch"
  /\ Len(walk.fetches) < MaxFetches
  /\ \E out \in {"ok", "transport", "errors"} :
       /\ Outcome(out)
       /\ LET page == walk.pages[PageOf(walk.cursor)]
              w == [walk EXCEPT !.fetches = Append(@, walk.cursor),
                                !.outs = Append(@, out)]
              x == [w EXCEPT !.acc = @ \o page.nodes]
          IN  walk' =
                CASE out = "transport" ->
                       IF walk.kind = "comments"
                       THEN [w EXCEPT !.pc = "crashed"]
                       ELSE [w EXCEPT !.acc = <<>>, !.pc = "done"]
                  [] out = "errors" -> [w EXCEPT !.pc = "done"]
                  [] OTHER ->
                       IF ~has_next(page) THEN [x EXCEPT !.pc = "done"]
                       ELSE [x EXCEPT !.cursor = page.endCursor]
  /\ UNCHANGED <<world, static, run, log, externalLeft>>

NextWalk == WalkFetch

SpecWalk == InitWalk /\ [][NextWalk]_vars

\* ------------------------------------------------------------ the claims

\* Positions in run r's record of the lines `op` of the pair (p, k).
PairEvents(r, p, k, op) ==
  {n \in DOMAIN log[r] :
     log[r][n].op = op /\ log[r][n].p = p /\ log[r][n].k = k}

\* Run r is still inside the pair (p, k), about to make the call `pc`.
AtPair(r, p, k, pc) ==
  run[r].pc = pc /\ run[r].p = p /\ run[r].k = k

SideEffects == {"mutate", "comment"}

\* C1 (closed-issue safety): no status mutation and no comment is issued for a
\* pair whose issue is CLOSED on the server at the moment of that call, even
\* if the issue was OPEN when it was resolved.
C1_ClosedIssueSafety ==
  \A r \in Runs : \A n \in DOMAIN log[r] :
     log[r][n].op \in SideEffects => log[r][n].live = "OPEN"

\* C4 (never comment about a status change that did not happen): a comment
\* posted for a pair for which the status mutation was called follows a
\* mutation that changed the row; a mutation answered without a confirming
\* update payload (no data, or a null payload) is followed by no comment.
C4_NoCommentWithoutStatusChange ==
  \A r \in Runs : \A n \in DOMAIN log[r] :
     log[r][n].op = "mutate" /\ log[r][n].res # "ok"
       => PairEvents(r, log[r][n].p, log[r][n].k, "comment") = {}

\* C5 (already-on-target short-circuit): for a pair whose status read returned
\* "QA Testing", the status mutation is never called and add_issue_comment is
\* called exactly once (not yet while the run is about to call it).
C5_AlreadyOnTarget ==
  \A r \in Runs : \A n \in DOMAIN log[r] :
     LET e == log[r][n]
     IN  e.op = "read_status" /\ e.res = QATesting
           => /\ PairEvents(r, e.p, e.k, "mutate") = {}
              /\ Cardinality(PairEvents(r, e.p, e.k, "comment"))
                   = IF AtPair(r, e.p, e.k, "comment") THEN 0 ELSE 1

C5_Witness ==
  \E r \in Runs : \E n \in DOMAIN log[r] :
     /\ log[r][n].op = "read_status" /\ log[r][n].res = QATesting
     /\ \E m \in PairEvents(r, log[r][n].p, log[r][n].k, "comment") :
          m > n /\ log[r][m].res = "ok"

\* The pair processed after (p, k): the next reference of the same PR, else
\* the first reference of the next PR that has any, else none (<<0, 0>>).
PairAfter(merged, p, k) ==
  LET refs(q) == extract_referenced_issues_from_text(merged[q].bodyText)
      later == {q \in (p + 1)..Len(merged) : refs(q) # <<>>}
  IN  IF k < Len(refs(p)) THEN <<p, k + 1>>
      ELSE IF later = {} THEN <<0, 0>>
      ELSE <<CHOOSE q \in later : \A q2 \in later : q <= q2, 1>>

\* C6 (item-not-found skip): for a pair whose status read returned something
\* other than "QA Testing" and whose issue no fetched project item wraps,
\* neither the mutation nor the comment post is called, one warning is
\* recorded, and the run is at the next reference (or has returned when
\* there is none).
C6_ItemNotFoundSkip ==
  \A r \in Runs : \A n \in DOMAIN log[r] :
     LET e == log[r][n]
         after == PairAfter(run[r].merged_prs, e.p, e.k)
     IN  /\ e.op = "read_status" /\ e.res \notin {QATesting, "raise"}
         /\ ~\E i \in DOMAIN run[r].items : run[r].items[i].content = e.issue
         => /\ PairEvents(r, e.p, e.k, "mutate") = {}
            /\ PairEvents(r, e.p, e.k, "comment") = {}
            /\ Cardinality(PairEvents(r, e.p, e.k, "warn_noitem")) = 1
            /\ n + 1 \in PairEvents(r, e.p, e.k, "warn_noitem")
            /\ n + 2 \in DOMAIN log[r]
                 => <<log[r][n + 2].p, log[r][n + 2].k>> = after
            /\ after = <<0, 0>> /\ n + 2 \notin DOMAIN log[r]
                 => run[r].pc = "done"
            /\ after # <<0, 0>> /\ n + 2 \notin DOMAIN log[r]
                 => AtPair(r, after[1], after[2], "resolve")

C6_Witness ==
  \E r \in Runs : \E n \in DOMAIN log[r] :
     /\ log[r][n].op = "warn_noitem"
     /\ log[r][n].live = "OPEN"
     /\ n + 1 \in DOMAIN log[r]
     /\ log[r][n + 1].op = "resolve"

\* C7 (mutate-then-comment): when the status mutation of a pair succeeds, it
\* is the only mutation of the pair, it carries the field id and the
\* "QA Testing" option id the run resolved at its start and the id of the
\* fetched item that wraps the issue, and exactly one comment post follows
\* it (none precedes it), whose text holds the PR's number.
C7_MutateThenComment ==
  \A r \in Runs : \A n \in DOMAIN log[r] :
     LET e == log[r][n]
         posts == PairEvents(r, e.p, e.k, "comment")
     IN  e.op = "mutate" /\ e.res \in {"ok", "nullpayload"}
         => /\ PairEvents(r, e.p, e.k, "mutate") = {n}
            /\ e.field = run[r].status_field_id
            /\ e.option = run[r].status_option_id
            /\ \E i \in DOMAIN fields :
                 /\ fields[i].id = e.field
                 /\ fields[i].name = status_field_name
                 /\ \E j \in DOMAIN fields[i].options :
                      /\ fields[i].options[j].id = e.option
                      /\ fields[i].options[j].name = QATesting
            /\ \E i \in DOMAIN run[r].items :
                 /\ run[r].items[i].id = e.item
                 /\ run[r].items[i].content = e.issue
            /\ \A m \in posts : m > n
            /\ Cardinality(posts) = IF AtPair(r, e.p, e.k, "comment") THEN 0 ELSE 1
            /\ \A m \in posts : \E x \in DOMAIN log[r][m].body :
                 log[r][m].body[x] = ToString(run[r].merged_prs[e.p].number)

C7_Witness ==
  \E r \in Runs : \E n \in DOMAIN log[r] :
     /\ log[r][n].op = "mutate" /\ log[r][n].res = "ok"
     /\ n + 1 \in DOMAIN log[r]
     /\ log[r][n + 1].op = "comment" /\ log[r][n + 1].res = "ok"
     /\ log[r][n + 1].issue = log[r][n].issue

\* What the remote holds resolves the configuration: a project of the
\* configured title, a single-select field of the configured name, and a
\* "QA Testing" option under such a field.
ProjectFound == \E i \in DOMAIN projects : projects[i].title = project_title
FieldFound ==
  \E i \in DOMAIN fields :
     fields[i].typename = SingleSelect /\ fields[i].name = status_field_name
OptionFound ==
  \E i \in DOMAIN fields :
     /\ fields[i].typename = SingleSelect /\ fields[i].name = status_field_name
     /\ \E j \in DOMAIN fields[i].options : fields[i].options[j].name = QATesting

PairOps ==
  {"resolve", "warn_unresolved", "skip_state", "list_comments", "skip_dup",
   "read_status", "warn_noitem", "mutate", "error_update", "comment"}

\* C8 (configuration-resolution failure is fatal for the run): when the
\* project, the status field or the "QA Testing" option is not found, the run
\* never enters the loop over the PRs (no issue resolved, no mutation, no
\* comment), and once the failure is logged the run has returned.
C8_ConfigFailureFatal ==
  \A r \in Runs :
     /\ ~(ProjectFound /\ FieldFound /\ OptionFound)
          => /\ run[r].p = 0
             /\ run[r].pc \in {"start", "project", "field", "option", "done",
                               "crashed"}
             /\ \A n \in DOMAIN log[r] : log[r][n].op \notin PairOps
     /\ (\E n \in DOMAIN log[r] :
           log[r][n].op \in {"error_project", "error_field", "error_option"})
          => /\ run[r].pc = "done"
             /\ \A n \in DOMAIN log[r] : log[r][n].op \notin PairOps

C8_Witness ==
  \E r \in Runs :
     /\ run[r].merged_prs # <<>>
     /\ ~OptionFound /\ ProjectFound /\ FieldFound
     /\ run[r].pc = "done"
     /\ \E n \in DOMAIN log[r] : log[r][n].op = "error_option"

\* C9 (dry-run suppresses side effects): with the dry-run flag set, a run
\* issues no status mutation and posts no comment.
C9_DryRunSuppressesSideEffects ==
  dry_run => \A r \in Runs : \A n \in DOMAIN log[r] :
               log[r][n].op \notin SideEffects

\* C10 (transport failures are never fatal during pair processing): a run
\* that has entered the loop over the PRs is never ended by a failed call.
C10_TransportFailureNotFatal ==
  \A r \in Runs : ~(run[r].pc = "crashed" /\ run[r].p > 0)

\* Comments on issue i whose body holds the notification text of PR pr.
Notifications(i, pr) ==
  {c \in DOMAIN comments[i] :
     Contains(comments[i][c], comment_text(pr.number, pr.url))}

\* Positions in run r's record of the comment posts the server accepted for
\* issue i with the text `text`.
PostsOf(r, i, text) ==
  {n \in DOMAIN log[r] :
     /\ log[r][n].op = "comment" /\ log[r][n].res = "ok"
     /\ log[r][n].issue = i /\ log[r][n].body = text}

ListingsAnswered ==
  \A r \in Runs : \A n \in DOMAIN log[r] :
     log[r][n].op = "list_comments" => log[r][n].res = "ok"

WellPaged(pages) ==
  \A i \in 1..Len(pages) :
     /\ pages[i].hasNextPage = (i < Len(pages))
     /\ i < Len(pages) => pages[i].endCursor = i + 1

\* The nodes of the first n pages, in page order.
RECURSIVE Concatenation(_, _)
Concatenation(pages, n) ==
  IF n = 0 THEN <<>> ELSE Concatenation(pages, n - 1) \o pages[n].nodes

Answered == \A j \in DOMAIN walk.outs : walk.outs[j] = "ok"

\* C11 (pagination completeness): over a source of n pages where only the last
\* page reports hasNextPage = false, a walk whose fetches are all answered
\* makes exactly n fetches, the first with cursor None and each later one with
\* the endCursor of the page before, and returns the nodes of all pages in page
\* order (which is also what the runs' list calls return).
C11_PaginationCompleteness ==
  (WellPaged(walk.pages) /\ Answered) =>
     /\ \A j \in DOMAIN walk.fetches :
          walk.fetches[j] = IF j = 1 THEN 0 ELSE walk.pages[j - 1].endCursor
     /\ walk.acc = Concatenation(walk.pages, Len(walk.fetches))
     /\ Len(walk.fetches) <= Len(walk.pages)
     /\ (walk.pc = "done") = (Len(walk.fetches) = Len(walk.pages))
     /\ walk.pc = "done" => walk.acc = Walk(walk.pages, 0)

\* A walk over three pages has ended with all their nodes after three fetches.
C11_Witness ==
  /\ WellPaged(walk.pages) /\ Answered
  /\ Len(walk.pages) = 3
  /\ walk.pc = "done"
  /\ Len(walk.fetches) = 3
  /\ walk.acc = walk.pages[1].nodes \o walk.pages[2].nodes \o walk.pages[3].nodes

\* C20 (pagination termination): every cursor walk ends after finitely many
\* fetches whatever pageInfo the server reports, a hasNextPage = true with a
\* null or unchanged endCursor included.  The server holds finitely many pages
\* and answers a cursor the same way every time, so a walk ends exactly when it
\* never asks again for a page it has already fetched: no page is fetched
\* twice, and the fetches are never more than the pages the server holds.
C20_PaginationTerminates ==
  /\ \A i, j \in DOMAIN walk.fetches :
        i # j => PageOf(walk.fetches[i]) # PageOf(walk.fetches[j])
  /\ Len(walk.fetches) <= Len(walk.pages)

\* The three shapes of a reference, read off the text alone: an optional
\* "org/repo" or "repo" qualifier, "#", a number.
IsWordSeq(s) == Len(s) >= 1 /\ \A i \in 1..Len(s) : IsWord(s[i])

IsNumber(s) == Len(s) >= 1 /\ \A i \in 1..Len(s) : IsDigit(s[i])

HashOf(s) == CHOOSE h \in 1..Len(s) : s[h] = "#"

SlashesOf(s) == {i \in 1..Len(s) : s[i] = "/"}

IsReference(s) ==
  /\ \E h \in 1..Len(s) : s[h] = "#"
  /\ LET pre == SubSeq(s, 1, HashOf(s) - 1)
     IN  /\ IsNumber(SubSeq(s, HashOf(s) + 1, Len(s)))
         /\ \/ pre = <<>>
            \/ IsWordSeq(pre)
            \/ \E sl \in SlashesOf(pre) :
                  /\ IsWordSeq(SubSeq(pre, 1, sl - 1))
                  /\ IsWordSeq(SubSeq(pre, sl + 1, Len(pre)))

\* The (org, repo, number) a reference of one of the three shapes stands for.
TripleOf(s) ==
  LET pre == SubSeq(s, 1, HashOf(s) - 1)
      number == ToInt(SubSeq(s, HashOf(s) + 1, Len(s)))
  IN  IF pre = <<>> THEN <<repository_owner, repository_name, number>>
      ELSE IF SlashesOf(pre) = {} THEN <<repository_owner, pre, number>>
      ELSE LET sl == CHOOSE i \in SlashesOf(pre) : TRUE
           IN  <<SubSeq(pre, 1, sl - 1), SubSeq(pre, sl + 1, Len(pre)), number>>

\* C12 (resolver parsing of the three shapes): every token the extractor
\* emits is accepted by the resolver, none is rejected as unparseable, and the
\* query it sends names (configured owner, configured repo, N) for "#N",
\* (configured owner, repo, N) for "repo#N" and (org, repo, N) for "org/repo#N".
C12_ResolverParsesThreeShapes ==
  \A r \in Runs : \A n \in DOMAIN log[r] :
     LET e == log[r][n]
     IN  (e.p > 0 /\ e.op \in {"resolve", "warn_unresolved"}) =>
            /\ e.res # "nomatch"
            /\ e.query =
                 TripleOf(extract_referenced_issues_from_text(
                            run[r].merged_prs[e.p].bodyText)[e.k])

\* The length of the longest reference that starts at position i of the text
\* (0 when none does).
LongestAt(text, i) ==
  LET fits == {l \in 1..(Len(text) - i + 1) :
                 IsReference(SubSeq(text, i, i + l - 1))}
  IN  IF fits = {} THEN 0 ELSE CHOOSE l \in fits : \A m \in fits : m <= l

\* The references of a text from position i on: leftmost first, the longest
\* form at its position, not overlapping, repeated when the text repeats them.
RECURSIVE ReferencesFrom(_, _)
ReferencesFrom(text, i) ==
  IF i > Len(text) THEN <<>>
  ELSE IF LongestAt(text, i) = 0 THEN ReferencesFrom(text, i + 1)
  ELSE <<SubSeq(text, i, i + LongestAt(text, i) - 1)>> \o
       ReferencesFrom(text, i + LongestAt(text, i))

\* The tokens of the references a run went through for its PR p, in order.
RefsProcessed(r, p) ==
  LET firsts == {n \in DOMAIN log[r] :
                   /\ log[r][n].p = p
                   /\ \A m \in 1..(n - 1) :
                         log[r][m].p = p => log[r][m].k # log[r][n].k}
  IN  Cardinality(firsts)

\* C13 (extraction precedence): the extractor returns the non-overlapping
\* references of the text in order of appearance, the longest qualifying form
\* at each position, duplicates kept, and the empty list when nothing matches;
\* a text with one reference of each shape gives the three of them in order.
\* The run goes through exactly these references of its PR, one after another.
C13_ExtractionPrecedence ==
  \A i \in DOMAIN prs :
     LET text == prs[i].bodyText
         refs == extract_referenced_issues_from_text(text)
     IN  /\ refs = ReferencesFrom(text, 1)
         /\ text = ThreeShapes =>
              refs = << <<"a", "/", "r", "#", "9">>, <<"r", "#", "8">>,
                        <<"#", "7">> >>
         /\ \A r \in Runs :
               /\ RefsProcessed(r, i) <= Len(refs)
               /\ (run[r].pc = "done" /\ Len(run[r].merged_prs) = Len(prs))
                     => RefsProcessed(r, i) = Len(refs)

\* A run is through the text with one reference of each shape.
C13_Witness ==
  /\ prs[1].bodyText = ThreeShapes
  /\ run[1].pc = "done"
  /\ RefsProcessed(1, 1) = 3

\* C14 (mandatory second read): every status mutation and every comment post
\* is preceded, after the duplicate-comment check of the same pair and with no
\* other mutating call in between, by a read of the issue's live state
\* (get_issue_state) that is separate from the read done at resolution.
C14_MandatorySecondRead ==
  \A r \in Runs : \A n \in DOMAIN log[r] :
     log[r][n].op \in SideEffects =>
        \E m \in 1..(n - 1) :
           /\ log[r][m].op = "get_issue_state"
           /\ log[r][m].p = log[r][n].p /\ log[r][m].k = log[r][n].k
           /\ \E l \in 1..(m - 1) :
                 /\ log[r][l].op = "list_comments"
                 /\ log[r][l].p = log[r][n].p /\ log[r][l].k = log[r][n].k
           /\ \A x \in (m + 1)..(n - 1) : log[r][x].op \notin SideEffects

\* The references of merged PR q that name issue i.
RefsTo(merged, q, i) ==
  LET refs == extract_referenced_issues_from_text(merged[q].bodyText)
  IN  {k \in DOMAIN refs :
         /\ resolve_parse(refs[k]).ok
         /\ IssueAt(resolve_parse(refs[k]).org, resolve_parse(refs[k]).repo,
                    resolve_parse(refs[k]).number) = i}

\* The rows of the configured board that wrap issue i.
BoardRows(i) == {x \in DOMAIN boardItems : boardItems[x].content = i}

\* Positions in run r's record of the calls `op` made for issue i.
IssueEvents(r, i, op) ==
  {n \in DOMAIN log[r] : log[r][n].op = op /\ log[r][n].issue = i}

\* C15 (per-PR notification): when the two merged PRs of a run (one whose
\* project, field and option lookups succeed) each reference the same issue
\* once, and the issue is open, has a row on the board that was
\* not on "QA Testing" when the run began, and had no comment before the run,
\* then at the end of the run the issue carries exactly one comment for each of
\* the two PRs and the status mutation was issued exactly once, for the PR
\* processed first.
C15_PerPRNotification ==
  \A i \in IssueIds :
     LET r == 1
         merged == run[r].merged_prs
         mutations == IssueEvents(r, i, "mutate")
         posts == IssueEvents(r, i, "comment")
     IN  ( /\ run[r].pc = "done"
           /\ ProjectFound /\ FieldFound /\ OptionFound
           /\ Len(merged) = 2
           /\ \A q \in {1, 2} : Cardinality(RefsTo(merged, q, i)) = 1
           /\ issueState[i] = "OPEN"
           /\ BoardRows(i) # {}
           /\ \A x \in BoardRows(i) :
                 itemStatus[boardItems[x].id] # QATesting \/ mutations # {}
           /\ Len(comments[i]) = Cardinality(posts) )
         => /\ \A q \in {1, 2} :
                 Cardinality(Notifications(i, merged[q])) = 1
            /\ Len(comments[i]) = 2
            /\ Cardinality(mutations) = 1
            /\ \A n \in mutations : log[r][n].p = 1

\* C19 (current status is read from the configured board): an issue whose row
\* on the configured board is not on "QA Testing" gets no comment without a
\* successful status mutation, whatever the same-named field says on another
\* project the issue belongs to.
C19_StatusReadFromConfiguredBoard ==
  \A r \in Runs : \A n \in DOMAIN log[r] :
     LET e == log[r][n]
         mutated == {m \in 1..(n - 1) :
                       /\ log[r][m].op = "mutate" /\ log[r][m].res = "ok"
                       /\ log[r][m].issue = e.issue}
     IN  (e.op = "comment" /\ BoardRows(e.issue) # {} /\ mutated = {})
            => \A x \in BoardRows(e.issue) :
                  itemStatus[boardItems[x].id] = QATesting

\* The place of a recorded line in the order of the gates of a pair.
GateRank(op) ==
  CASE op = "resolve" -> 1
    [] op \in {"warn_unresolved", "skip_state"} -> 2
    [] op = "list_comments" -> 3
    [] op = "skip_dup" -> 4
    [] op = "read_status" -> 5
    [] op \in {"warn_noitem", "mutate"} -> 6
    [] op = "error_update" -> 7
    [] op = "comment" -> 8
    [] OTHER -> 0

\* The lines that record a failed gate.
Skips == {"warn_unresolved", "skip_state", "skip_dup"}

SamePair(e, f) == e.p = f.p /\ e.k = f.k

\* C16 (SKIPPED is absorbing): the steps of a pair happen in the order
\* resolve, open-state check, duplicate-comment check, status read, branch;
\* once a gate has failed (unresolvable, not OPEN, comment exists) no later
\* step of that pair executes, and the run never comes back to a pair it has
\* left.
C16_SkippedIsAbsorbing ==
  \A r \in Runs : \A n \in DOMAIN log[r] : \A m \in DOMAIN log[r] :
     LET e == log[r][n]
         f == log[r][m]
     IN  (n < m /\ e.p > 0 /\ SamePair(e, f)) =>
            /\ GateRank(e.op) < GateRank(f.op)
            /\ e.op \notin Skips
            /\ (e.op = "resolve" /\ e.res # "OPEN") => f.op \in Skips
            /\ \A x \in (n + 1)..(m - 1) : SamePair(e, log[r][x])

\* A pair was skipped at the state gate, another at the duplicate check, and
\* the run went on to its end.
C16_Witness ==
  /\ run[1].pc = "done"
  /\ \E n \in DOMAIN log[1] : \E m \in DOMAIN log[1] :
        /\ n < m
        /\ log[1][n].op = "skip_state"
        /\ log[1][m].op = "skip_dup"

\* C17 (non-OPEN is never actionable): a pair whose resolved issue is reported
\* in any state other than exactly "OPEN" (CLOSED, no state at all, a null
\* state) gets no status mutation and no comment.
C17_NonOpenNeverActionable ==
  \A r \in Runs : \A n \in DOMAIN log[r] : \A m \in DOMAIN log[r] :
     LET e == log[r][n]
         f == log[r][m]
     IN  (e.op = "resolve" /\ e.res # "OPEN" /\ SamePair(e, f))
            => f.op \notin SideEffects

\* An issue was reported without a state, the pair was skipped, and the run
\* went on to its end.
C17_Witness ==
  /\ run[1].pc = "done"
  /\ \E n \in DOMAIN log[1] :
        /\ log[1][n].op = "skip_state"
        /\ log[1][n].res = "UNKNOWN"
        /\ log[1][n].issue \in IssueIds

\* C18 (resolution failure is local): when a reference does not parse, names
\* no issue, or its resolve call fails, nothing else is done for that
\* reference and the run goes on with the next reference of the PR, or of the
\* next PR that has one (it returns when there is none).
C18_ResolutionFailureIsLocal ==
  \A r \in Runs : \A n \in DOMAIN log[r] :
     LET e == log[r][n]
         after == PairAfter(run[r].merged_prs, e.p, e.k)
     IN  e.op = "warn_unresolved" =>
            /\ \A m \in DOMAIN log[r] :
                  SamePair(e, log[r][m]) =>
                     log[r][m].op \in {"resolve", "warn_unresolved"}
            /\ IF n < Len(log[r])
               THEN <<log[r][n + 1].p, log[r][n + 1].k>> = after
               ELSE \/ AtPair(r, after[1], after[2], "resolve")
                    \/ after = <<0, 0>> /\ run[r].pc = "done"

\* A reference was not resolved and a later reference of the run was
\* commented.
C18_Witness ==
  \E n \in DOMAIN log[1] : \E m \in DOMAIN log[1] :
     /\ n < m
     /\ log[1][n].op = "warn_unresolved"
     /\ log[1][m].op = "comment"
     /\ log[1][m].res = "ok"

\* The (issue, PR) pairs the merged PRs of run r reference.
DistinctPairs(r) ==
  {ip \in IssueIds \X DOMAIN run[r].merged_prs :
     RefsTo(run[r].merged_prs, ip[2], ip[1]) # {}}

\* Positions in run r's record of the calls `op` made for issue i and PR p.
PairCalls(r, i, p, op) ==
  {n \in DOMAIN log[r] :
     log[r][n].op = op /\ log[r][n].issue = i /\ log[r][n].p = p}

\* At most one mutation call and one comment call per (issue, PR) pair, and
\* no more of either in the run than there are such pairs.
OncePerPair(r) ==
  /\ \A i \in IssueIds : \A p \in DOMAIN run[r].merged_prs :
        /\ Cardinality(PairCalls(r, i, p, "mutate")) <= 1
        /\ Cardinality(PairCalls(r, i, p, "comment")) <= 1
  /\ \A op \in SideEffects :
        Cardinality({n \in DOMAIN log[r] : log[r][n].op = op})
          <= Cardinality(DistinctPairs(r))

=============================================================================
